---- MODULE Spec2Model ----
(***************************************************************************)
(* TranscribeIT (script.js): the word-level aligner wordEditDistance, run  *)
(* one loop iteration per step, and the page workflow around it            *)
(* (index.html, exam.html, result.html over localStorage).                 *)
(***************************************************************************)
EXTENDS Integers, Sequences, FiniteSets, TLC

(* ------------------------------ bounds -------------------------------- *)

\* longest token sequence handed to wordEditDistance
MaxLen == 3

\* the words token sequences are built from
Tokens == {"a", "b", "c"}

\* spec.md section 8, concrete scenario 2
ScenarioOriginal == <<"the", "quick", "brown", "fox">>
ScenarioTyped == <<"the", "quikc", "brown">>

RECURSIVE SeqsUpTo(_)
SeqsUpTo(n) ==
    IF n = 0 THEN {<<>>}
    ELSE LET shorter == SeqsUpTo(n - 1)
         IN  shorter \cup {Append(s, t) : s \in {x \in shorter : Len(x) = n - 1}, t \in Tokens}

TokenSeqs == SeqsUpTo(MaxLen)

\* the (reference, typed) pairs the aligner is run on
InputPairs ==
    (TokenSeqs \X TokenSeqs) \cup {<<ScenarioOriginal, ScenarioTyped>>}

\* most records kept in localStorage "history", most saved passages
MaxHistory == 2
MaxPassages == 1

\* what a user types into a textarea: a text is a sequence of characters
Texts == {<<" ">>, <<"b">>, <<"a", " ", " ", "b", " ">>}

\* what a user types into the time field
TimeTexts == {<<>>, <<"0">>, <<"1">>}

\* Date.now() - startTime, in milliseconds, when the submit timeout runs
ElapsedMs == {6000}

(* ------------------------- wordEditDistance --------------------------- *)

VARIABLES
    originalWords,  \* parameter: the reference tokens
    typedWords,     \* parameter: the typed tokens
    dp,             \* the (m+1) x (n+1) matrix, dp[i][j] with i \in 0..m, j \in 0..n
    i, j,           \* the traceback's position
    originalMark,   \* originalMark[k] models originalMark[k-1] of the code
    typedMark,      \* typedMark[k] models typedMark[k-1] of the code
    branch,         \* the branch the last iteration of the main loop took
    subs,           \* how many iterations took the substitution branch
    steps,          \* how many iterations the main loop has run
    pc,             \* where wordEditDistance is
    result          \* the returned object, NoResult before the return

alignVars == <<originalWords, typedWords, dp, i, j, originalMark, typedMark,
               branch, subs, steps, pc, result>>

VARIABLES
    page,           \* the document shown: "index", "exam" or "result"
    loaded,         \* whether window.onload has run for it
    arrivedBy,      \* what started the navigation to it
    passages,       \* localStorage "passages"
    currentPassage, \* localStorage "currentPassage": <<>> is null, <<t>> the text t
    currentTime,    \* localStorage "currentTime": <<>> is null, <<t>> the string t
    typedText,      \* localStorage "typedText"
    timeTaken,      \* localStorage "timeTaken": <<>> is null, <<ms>> is ms/60000
    history,        \* localStorage "history"
    passageInput,   \* index.html: the passage textarea
    timeInput,      \* index.html: the time field
    userInput,      \* exam.html: the typing textarea
    submitDisabled, \* exam.html: submitBtn.disabled
    examStarted,    \* exam.html: startExam has bound submitBtn.onclick
    timerInterval,  \* whether the interval of line 152 is running
    timeLeft,       \* line 71
    submitTimeouts, \* how many timeouts of line 173 are outstanding
    resultBox       \* result.html: <<>> or <<the values displayed>>

storageVars == <<passages, currentPassage, currentTime, typedText, timeTaken, history>>

domVars == <<passageInput, timeInput, userInput, submitDisabled, examStarted, resultBox>>

timerVars == <<timerInterval, timeLeft, submitTimeouts>>

appVars == <<page, loaded, arrivedBy, storageVars, domVars, timerVars>>

vars == <<alignVars, appVars>>

\* lines 3-4
m == Len(originalWords)
n == Len(typedWords)

NoResult == [errors |-> -1, originalMark |-> <<>>, typedMark |-> <<>>]

Min3(a, b, c) ==
    IF a <= b /\ a <= c THEN a ELSE IF b <= c THEN b ELSE c

\* DpBase without line 25: row 0 is left at its fill value 0
DpBaseRowUnset(rows, cols) ==
    [r \in 0..rows |-> [c \in 0..cols |-> IF c = 0 THEN r ELSE 0]]

\* lines 23-25: the matrix with row 0 and column 0 set, 0 elsewhere
DpBase(rows, cols) ==
    [r \in 0..rows |-> [c \in 0..cols |-> IF c = 0 THEN r ELSE IF r = 0 THEN c ELSE 0]]

\* DpCell without the diagonal term of Math.min
DpCellNoDiagonal(A, B, d, r, c) ==
    IF A[r] = B[c]
    THEN d[r - 1][c - 1]
    ELSE Min3(d[r - 1][c] + 1, d[r][c - 1] + 1, d[r - 1][c] + 1)

\* DpCell with the equality test dropped: a match is charged as a substitution
DpCellMatchCharged(A, B, d, r, c) ==
    Min3(d[r - 1][c] + 1, d[r][c - 1] + 1, d[r - 1][c - 1] + 1)

\* DpCell with dp[i-1][j] + 2 for dp[i-1][j] + 1
DpCellDeletionTwo(A, B, d, r, c) ==
    IF A[r] = B[c]
    THEN d[r - 1][c - 1]
    ELSE Min3(d[r - 1][c] + 2, d[r][c - 1] + 1, d[r - 1][c - 1] + 1)

\* DpCell with the 1 added to the minimum a second time
DpCellPlusTwo(A, B, d, r, c) ==
    IF A[r] = B[c]
    THEN d[r - 1][c - 1]
    ELSE Min3(d[r - 1][c] + 1, d[r][c - 1] + 1, d[r - 1][c - 1] + 1) + 1

\* lines 29-37: the value stored in dp[r][c]
DpCell(A, B, d, r, c) ==
    IF A[r] = B[c]
    THEN d[r - 1][c - 1]
    ELSE Min3(d[r - 1][c] + 1, d[r][c - 1] + 1, d[r - 1][c - 1] + 1)

\* lines 27-39: the two nested loops, from cell (r, c) on
RECURSIVE DpFill(_, _, _, _, _)
DpFill(A, B, d, r, c) ==
    IF r > Len(A) THEN d
    ELSE IF c > Len(B) THEN DpFill(A, B, d, r + 1, 1)
    ELSE DpFill(A, B, [d EXCEPT ![r][c] = DpCell(A, B, d, r, c)], r, c + 1)

\* lines 45, 63, 64: which loop runs next at position (r, c)
LoopAt(r, c) ==
    IF r > 0 /\ c > 0 THEN "trace"
    ELSE IF r > 0 THEN "restOriginal"
    ELSE IF c > 0 THEN "restTyped"
    ELSE "return"

\* TraceStep without line 53: a deleted reference token is left unmarked
TraceStepDeletionUnmarked(A, B, s) ==
    IF A[s.i] = B[s.j]
    THEN [s EXCEPT !.i = @ - 1, !.j = @ - 1, !.branch = "match"]
    ELSE IF s.dp[s.i][s.j] = s.dp[s.i - 1][s.j - 1] + 1
    THEN [s EXCEPT !.originalMark[s.i] = TRUE, !.typedMark[s.j] = TRUE,
                   !.i = @ - 1, !.j = @ - 1, !.branch = "substitution"]
    ELSE IF s.dp[s.i][s.j] = s.dp[s.i - 1][s.j] + 1
    THEN [s EXCEPT !.i = @ - 1, !.branch = "deletion"]
    ELSE IF s.dp[s.i][s.j] = s.dp[s.i][s.j - 1] + 1
    THEN [s EXCEPT !.typedMark[s.j] = TRUE, !.j = @ - 1, !.branch = "insertion"]
    ELSE [s EXCEPT !.i = @ - 1, !.j = @ - 1, !.branch = "fallback"]

\* TraceStep without the j-- of line 57
TraceStepInsertionStays(A, B, s) ==
    IF A[s.i] = B[s.j]
    THEN [s EXCEPT !.i = @ - 1, !.j = @ - 1, !.branch = "match"]
    ELSE IF s.dp[s.i][s.j] = s.dp[s.i - 1][s.j - 1] + 1
    THEN [s EXCEPT !.originalMark[s.i] = TRUE, !.typedMark[s.j] = TRUE,
                   !.i = @ - 1, !.j = @ - 1, !.branch = "substitution"]
    ELSE IF s.dp[s.i][s.j] = s.dp[s.i - 1][s.j] + 1
    THEN [s EXCEPT !.originalMark[s.i] = TRUE, !.i = @ - 1, !.branch = "deletion"]
    ELSE IF s.dp[s.i][s.j] = s.dp[s.i][s.j - 1] + 1
    THEN [s EXCEPT !.typedMark[s.j] = TRUE, !.branch = "insertion"]
    ELSE [s EXCEPT !.i = @ - 1, !.j = @ - 1, !.branch = "fallback"]

\* lines 46-61: one iteration of the main traceback loop on frame s
TraceStep(A, B, s) ==
    IF A[s.i] = B[s.j]
    THEN [s EXCEPT !.i = @ - 1, !.j = @ - 1, !.branch = "match"]
    ELSE IF s.dp[s.i][s.j] = s.dp[s.i - 1][s.j - 1] + 1
    THEN [s EXCEPT !.originalMark[s.i] = TRUE, !.typedMark[s.j] = TRUE,
                   !.i = @ - 1, !.j = @ - 1, !.branch = "substitution"]
    ELSE IF s.dp[s.i][s.j] = s.dp[s.i - 1][s.j] + 1
    THEN [s EXCEPT !.originalMark[s.i] = TRUE, !.i = @ - 1, !.branch = "deletion"]
    ELSE IF s.dp[s.i][s.j] = s.dp[s.i][s.j - 1] + 1
    THEN [s EXCEPT !.typedMark[s.j] = TRUE, !.j = @ - 1, !.branch = "insertion"]
    ELSE [s EXCEPT !.i = @ - 1, !.j = @ - 1, !.branch = "fallback"]

\* the local variables of a running call
Frame ==
    [dp |-> dp, i |-> i, j |-> j, originalMark |-> originalMark,
     typedMark |-> typedMark, branch |-> branch]

\* no page is open while a call of wordEditDistance is followed step by step
AppIdle ==
    /\ page = "none" /\ loaded = FALSE /\ arrivedBy = "none"
    /\ passages = <<>> /\ currentPassage = <<>> /\ currentTime = <<>>
    /\ typedText = <<>> /\ timeTaken = <<>> /\ history = <<>>
    /\ passageInput = <<>> /\ timeInput = <<>> /\ userInput = <<>>
    /\ submitDisabled = FALSE /\ examStarted = FALSE /\ resultBox = <<>>
    /\ timerInterval = FALSE /\ timeLeft = 0 /\ submitTimeouts = 0

AlignInit ==
    /\ \E p \in InputPairs : originalWords = p[1] /\ typedWords = p[2]
    /\ dp = <<>>
    /\ i = 0 /\ j = 0
    /\ originalMark = <<>> /\ typedMark = <<>>
    /\ branch = "none"
    /\ subs = 0 /\ steps = 0
    /\ pc = "fill"
    /\ result = NoResult
    /\ AppIdle

\* lines 3-43: build the matrix, start the traceback at (m, n)
Fill ==
    /\ pc = "fill"
    /\ dp' = DpFill(originalWords, typedWords, DpBase(m, n), 1, 1)
    /\ i' = m /\ j' = n
    /\ originalMark' = [k \in 1..m |-> FALSE]
    /\ typedMark' = [k \in 1..n |-> FALSE]
    /\ pc' = LoopAt(m, n)
    /\ UNCHANGED <<originalWords, typedWords, branch, subs, steps, result>>
    /\ UNCHANGED appVars

\* lines 45-62: one iteration of while(i > 0 && j > 0)
TraceLoop ==
    /\ pc = "trace"
    /\ LET s == TraceStep(originalWords, typedWords, Frame)
       IN  /\ i' = s.i /\ j' = s.j
           /\ originalMark' = s.originalMark
           /\ typedMark' = s.typedMark
           /\ branch' = s.branch
           /\ subs' = IF s.branch = "substitution" THEN subs + 1 ELSE subs
           /\ pc' = LoopAt(s.i, s.j)
    /\ steps' = steps + 1
    /\ UNCHANGED <<originalWords, typedWords, dp, result>>
    /\ UNCHANGED appVars

\* line 63: one iteration of while(i > 0)
RestOriginal ==
    /\ pc = "restOriginal"
    /\ originalMark' = [originalMark EXCEPT ![i] = TRUE]
    /\ i' = i - 1
    /\ pc' = IF i' > 0 THEN "restOriginal" ELSE IF j > 0 THEN "restTyped" ELSE "return"
    /\ steps' = steps + 1
    /\ UNCHANGED <<originalWords, typedWords, dp, j, typedMark, branch, subs, result>>
    /\ UNCHANGED appVars

\* line 64: one iteration of while(j > 0)
RestTyped ==
    /\ pc = "restTyped"
    /\ typedMark' = [typedMark EXCEPT ![j] = TRUE]
    /\ j' = j - 1
    /\ pc' = IF j' > 0 THEN "restTyped" ELSE "return"
    /\ steps' = steps + 1
    /\ UNCHANGED <<originalWords, typedWords, dp, i, originalMark, branch, subs, result>>
    /\ UNCHANGED appVars

\* line 66
Return ==
    /\ pc = "return"
    /\ result' = [errors |-> dp[Len(originalWords)][Len(typedWords)],
                  originalMark |-> originalMark, typedMark |-> typedMark]
    /\ pc' = "done"
    /\ UNCHANGED <<originalWords, typedWords, dp, i, j, originalMark, typedMark,
                   branch, subs, steps>>
    /\ UNCHANGED appVars

\* lines 45-62 run to the loop's exit
RECURSIVE TraceRun(_, _, _)
TraceRun(A, B, s) ==
    IF s.i > 0 /\ s.j > 0 THEN TraceRun(A, B, TraceStep(A, B, s)) ELSE s

\* lines 2-67: a whole call
wordEditDistance(A, B) ==
    LET d == DpFill(A, B, DpBase(Len(A), Len(B)), 1, 1)
        s == TraceRun(A, B, [dp |-> d, i |-> Len(A), j |-> Len(B),
                             originalMark |-> [k \in 1..Len(A) |-> FALSE],
                             typedMark |-> [k \in 1..Len(B) |-> FALSE],
                             branch |-> "none"])
    IN  [errors |-> d[Len(A)][Len(B)],
         originalMark |-> [k \in 1..Len(A) |-> s.originalMark[k] \/ k <= s.i],
         typedMark |-> [k \in 1..Len(B) |-> s.typedMark[k] \/ k <= s.j]]

Init == AlignInit

Next == Fill \/ TraceLoop \/ RestOriginal \/ RestTyped \/ Return

Spec == Init /\ [][Next]_vars

(* --------------------------- page workflow ---------------------------- *)

\* no call of wordEditDistance is followed step by step while pages run:
\* showResult takes the whole call as one value
AlignIdle ==
    /\ originalWords = <<>> /\ typedWords = <<>>
    /\ dp = <<>> /\ i = 0 /\ j = 0
    /\ originalMark = <<>> /\ typedMark = <<>>
    /\ branch = "none" /\ subs = 0 /\ steps = 0
    /\ pc = "idle" /\ result = NoResult

IsSpace(ch) == ch = " "

\* String.prototype.trim
RECURSIVE TrimStart(_)
TrimStart(t) ==
    IF t # <<>> /\ IsSpace(Head(t)) THEN TrimStart(Tail(t)) ELSE t

RECURSIVE TrimEnd(_)
TrimEnd(t) ==
    IF t # <<>> /\ IsSpace(t[Len(t)]) THEN TrimEnd(SubSeq(t, 1, Len(t) - 1)) ELSE t

Trim(t) == TrimEnd(TrimStart(t))

\* split(/\s+/) from character k on: done are the pieces closed so far, cur
\* the piece being read
RECURSIVE SplitFrom(_, _, _, _)
SplitFrom(t, k, done, cur) ==
    IF k > Len(t) THEN Append(done, cur)
    ELSE IF ~IsSpace(t[k]) THEN SplitFrom(t, k + 1, done, Append(cur, t[k]))
    ELSE IF k > 1 /\ IsSpace(t[k - 1]) THEN SplitFrom(t, k + 1, done, cur)
    ELSE SplitFrom(t, k + 1, Append(done, cur), <<>>)

SplitWhitespace(t) == SplitFrom(t, 1, <<>>, <<>>)

\* lines 188-189: text.trim().split(/\s+/).filter(w => w.length > 0)
Words(t) == SelectSeq(SplitWhitespace(Trim(t)), LAMBDA w : Len(w) > 0)

DigitChars == <<"0", "1", "2", "3", "4", "5", "6", "7", "8", "9">>

IsDigit(ch) == \E d \in 1..10 : DigitChars[d] = ch

DigitValue(ch) == (CHOOSE d \in 1..10 : DigitChars[d] = ch) - 1

\* parseInt of a string of this model: <<>> is NaN, <<v>> the integer v
RECURSIVE ParseDigits(_, _)
ParseDigits(t, acc) ==
    IF t = <<>> \/ ~IsDigit(Head(t)) THEN acc
    ELSE ParseDigits(Tail(t), <<(IF acc = <<>> THEN 0 ELSE acc[1]) * 10 + DigitValue(Head(t))>>)

ParseInt(opt) ==
    IF opt = <<>> THEN <<>> ELSE ParseDigits(TrimStart(opt[1]), <<>>)

\* String(v) of a non-negative integer
RECURSIVE NumberToString(_)
NumberToString(v) ==
    IF v < 10 THEN <<DigitChars[v + 1]>>
    ELSE Append(NumberToString(v \div 10), DigitChars[(v % 10) + 1])

\* !x of a parsed integer: NaN and 0 are falsy
Falsy(num) == num = <<>> \/ num[1] = 0

\* a / b of two numbers a, b >= 0 or a <= 0, rounded to hundredths as
\* toFixed(2) prints it: a finite value in hundredths, or the string
\* "NaN", "Infinity" or "-Infinity"
RoundDiv(a, b) ==
    IF a >= 0 THEN (2 * a + b) \div (2 * b) ELSE -((2 * (-a) + b) \div (2 * b))

Fixed2(num, den) ==
    IF den = 0
    THEN IF num = 0 THEN [kind |-> "NaN", cents |-> 0]
         ELSE IF num > 0 THEN [kind |-> "Infinity", cents |-> 0]
         ELSE [kind |-> "-Infinity", cents |-> 0]
    ELSE [kind |-> "finite", cents |-> RoundDiv(100 * num, den)]

\* line 186: parseFloat(localStorage.getItem("timeTaken")) || 0.01, in ms/60000
TimeTakenMs == IF timeTaken = <<>> \/ timeTaken[1] = 0 THEN 600 ELSE timeTaken[1]

\* lines 184-197 of showResult: the record of line 199
ResultRecord ==
    LET passage == IF currentPassage = <<>> THEN <<>> ELSE currentPassage[1]
        typed == IF typedText = <<>> THEN <<>> ELSE typedText[1]
        typedW == Words(typed)
        wordsTypedCount == Len(typedW)
        mistakes == wordEditDistance(Words(passage), typedW).errors
    IN  [passage |-> passage,
         typed |-> typed,
         grossWPM |-> Fixed2(wordsTypedCount * 60000, TimeTakenMs),
         netWPM |-> Fixed2((wordsTypedCount - mistakes) * 60000, TimeTakenMs),
         accuracy |-> Fixed2((wordsTypedCount - mistakes) * 100, wordsTypedCount),
         errors |-> mistakes]

\* a document being replaced by the document p
Navigate(p, by) ==
    /\ page' = p
    /\ loaded' = FALSE
    /\ arrivedBy' = by
    /\ passageInput' = <<>> /\ timeInput' = <<>> /\ userInput' = <<>>
    /\ submitDisabled' = FALSE /\ examStarted' = FALSE /\ resultBox' = <<>>
    /\ timerInterval' = FALSE /\ timeLeft' = 0 /\ submitTimeouts' = 0

AppInit ==
    /\ AlignIdle
    /\ page = "index" /\ loaded = FALSE /\ arrivedBy = "user"
    /\ passages = <<>> /\ currentPassage = <<>> /\ currentTime = <<>>
    /\ typedText = <<>> /\ timeTaken = <<>> /\ history = <<>>
    /\ passageInput = <<>> /\ timeInput = <<>> /\ userInput = <<>>
    /\ submitDisabled = FALSE /\ examStarted = FALSE /\ resultBox = <<>>
    /\ timerInterval = FALSE /\ timeLeft = 0 /\ submitTimeouts = 0

\* the user opens or reloads a page by its address
Open ==
    /\ \E p \in {"index", "exam", "result"} : Navigate(p, "user")
    /\ UNCHANGED <<storageVars, alignVars>>

\* lines 75-82 on index.html: the two lists are drawn, nothing is stored
LoadIndex ==
    /\ page = "index" /\ ~loaded
    /\ loaded' = TRUE
    /\ UNCHANGED <<page, arrivedBy, storageVars, domVars, timerVars, alignVars>>

\* lines 75-82 on exam.html: startExam, lines 144-154
LoadExam ==
    /\ page = "exam" /\ ~loaded
    /\ LET duration == ParseInt(currentTime)
       IN  IF currentPassage = <<>> \/ currentPassage[1] = <<>> \/ Falsy(duration)
           THEN Navigate("index", "startExam")
           ELSE /\ loaded' = TRUE
                /\ timeLeft' = duration[1] * 60
                /\ timerInterval' = TRUE
                /\ examStarted' = TRUE
                /\ UNCHANGED <<page, arrivedBy, passageInput, timeInput, userInput,
                               submitDisabled, resultBox, submitTimeouts>>
    /\ UNCHANGED <<storageVars, alignVars>>

\* lines 75-82 on result.html: showResult, lines 183-234, and
\* saveHistoryRecord, lines 237-241
LoadResult ==
    /\ page = "result" /\ ~loaded
    /\ Len(history) < MaxHistory
    /\ loaded' = TRUE
    /\ history' = Append(history, ResultRecord)
    /\ resultBox' = <<[grossWPM |-> ResultRecord.grossWPM,
                       netWPM |-> ResultRecord.netWPM,
                       accuracy |-> ResultRecord.accuracy,
                       errors |-> ResultRecord.errors,
                       timeUsed |-> Fixed2(TimeTakenMs, 60000)]>>
    /\ UNCHANGED <<page, arrivedBy, passages, currentPassage, currentTime, typedText,
                   timeTaken, passageInput, timeInput, userInput, submitDisabled,
                   examStarted, timerVars, alignVars>>

\* the user edits a field of index.html
TypePassage ==
    /\ page = "index" /\ loaded
    /\ \E t \in Texts : passageInput' = t
    /\ UNCHANGED <<page, loaded, arrivedBy, storageVars, timeInput, userInput,
                   submitDisabled, examStarted, resultBox, timerVars, alignVars>>

TypeTime ==
    /\ page = "index" /\ loaded
    /\ \E t \in TimeTexts : timeInput' = t
    /\ UNCHANGED <<page, loaded, arrivedBy, storageVars, passageInput, userInput,
                   submitDisabled, examStarted, resultBox, timerVars, alignVars>>

\* lines 85-93
savePassage ==
    /\ page = "index" /\ loaded
    /\ Trim(passageInput) # <<>>
    /\ Len(passages) < MaxPassages
    /\ passages' = Append(passages, Trim(passageInput))
    /\ passageInput' = <<>>
    /\ UNCHANGED <<page, loaded, arrivedBy, currentPassage, currentTime, typedText,
                   timeTaken, history, timeInput, userInput, submitDisabled,
                   examStarted, resultBox, timerVars, alignVars>>

\* lines 110-113
usePassage ==
    /\ page = "index" /\ loaded
    /\ \E k \in DOMAIN passages : passageInput' = passages[k]
    /\ UNCHANGED <<page, loaded, arrivedBy, storageVars, timeInput, userInput,
                   submitDisabled, examStarted, resultBox, timerVars, alignVars>>

\* lines 115-121, the confirm answered with OK
deletePassage ==
    /\ page = "index" /\ loaded
    /\ \E k \in DOMAIN passages :
          passages' = SubSeq(passages, 1, k - 1) \o SubSeq(passages, k + 1, Len(passages))
    /\ UNCHANGED <<page, loaded, arrivedBy, currentPassage, currentTime, typedText,
                   timeTaken, history, domVars, timerVars, alignVars>>

\* lines 123-130
startTest ==
    /\ page = "index" /\ loaded
    /\ LET passage == Trim(passageInput)
           time == ParseInt(<<timeInput>>)
       IN  /\ passage # <<>> /\ ~Falsy(time)
           /\ currentPassage' = <<passage>>
           /\ currentTime' = <<NumberToString(time[1])>>
    /\ Navigate("exam", "startTest")
    /\ UNCHANGED <<passages, typedText, timeTaken, history, alignVars>>

\* the user types into the textarea of exam.html
TypeAnswer ==
    /\ page = "exam" /\ loaded /\ examStarted
    /\ \E t \in Texts : userInput' = t
    /\ UNCHANGED <<page, loaded, arrivedBy, storageVars, passageInput, timeInput,
                   submitDisabled, examStarted, resultBox, timerVars, alignVars>>

\* lines 164-170 and 173 of submitExam: the timeout is set, nothing is stored yet
SubmitExamEffect ==
    /\ submitDisabled' = TRUE
    /\ timerInterval' = FALSE
    /\ submitTimeouts' = submitTimeouts + 1

\* lines 156-162: one tick of the interval
updateTimer ==
    /\ page = "exam" /\ timerInterval
    /\ timeLeft' = timeLeft - 1
    /\ IF timeLeft' < 0
       THEN SubmitExamEffect
       ELSE UNCHANGED <<submitDisabled, timerInterval, submitTimeouts>>
    /\ UNCHANGED <<page, loaded, arrivedBy, storageVars, passageInput, timeInput,
                   userInput, examStarted, resultBox, alignVars>>

\* a click on submitBtn, bound by line 153
submitExam ==
    /\ page = "exam" /\ examStarted /\ ~submitDisabled
    /\ SubmitExamEffect
    /\ UNCHANGED <<page, loaded, arrivedBy, storageVars, passageInput, timeInput,
                   userInput, examStarted, resultBox, timeLeft, alignVars>>

\* lines 173-179: the timeout of submitExam runs
SubmitTimeout ==
    /\ page = "exam" /\ submitTimeouts > 0
    /\ typedText' = <<Trim(userInput)>>
    /\ \E ms \in ElapsedMs : timeTaken' = <<ms>>
    /\ Navigate("result", "submitExam")
    /\ UNCHANGED <<passages, currentPassage, currentTime, history, alignVars>>

\* line 244
retryTest ==
    /\ page = "result" /\ loaded
    /\ Navigate("exam", "retryTest")
    /\ UNCHANGED <<storageVars, alignVars>>

\* line 245
goHome ==
    /\ page \in {"exam", "result"} /\ loaded
    /\ Navigate("index", "goHome")
    /\ UNCHANGED <<storageVars, alignVars>>

AppNext ==
    \/ Open \/ LoadIndex \/ LoadExam \/ LoadResult
    \/ TypePassage \/ TypeTime \/ savePassage \/ usePassage \/ deletePassage
    \/ startTest \/ TypeAnswer \/ updateTimer \/ submitExam \/ SubmitTimeout
    \/ retryTest \/ goHome

AppSpec == AppInit /\ [][AppNext]_vars

(* ------------------------------ claims -------------------------------- *)

CountTrue(f) == Cardinality({k \in DOMAIN f : f[k]})

Max(a, b) == IF a >= b THEN a ELSE b

\* The definition of the edit distance the matrix is compared with: an
\* alignment pairs the positions SA of A, in order, with the positions SB of
\* B; unpaired positions of A are deleted, unpaired positions of B inserted,
\* and a pair of different tokens is a substitution.
Rank(S, x) == Cardinality({y \in S : y <= x})

AlignmentCost(A, B, SA, SB) ==
    (Len(A) - Cardinality(SA)) + (Len(B) - Cardinality(SB))
    + Cardinality({a \in SA :
                     A[a] # B[CHOOSE b \in SB : Rank(SB, b) = Rank(SA, a)]})

EditDistance(A, B) ==
    LET alignments == {p \in (SUBSET (1..Len(A))) \X (SUBSET (1..Len(B))) :
                         Cardinality(p[1]) = Cardinality(p[2])}
        costs == {AlignmentCost(A, B, p[1], p[2]) : p \in alignments}
    IN  CHOOSE c \in costs : \A e \in costs : c <= e

\* C1: the returned errors is the minimum number of unit-cost substitutions,
\* insertions and deletions turning the reference into the typed sequence, and
\* every cell dp[r][c] is that minimum for the first r reference tokens and the
\* first c typed tokens.
C1_DistanceIsLevenshtein ==
    pc = "done" =>
        /\ result.errors = EditDistance(originalWords, typedWords)
        /\ \A r \in 0..m, c \in 0..n :
              dp[r][c] = EditDistance(SubSeq(originalWords, 1, r), SubSeq(typedWords, 1, c))

C1_Witness ==
    /\ pc = "done"
    /\ m >= 2 /\ n >= 2 /\ m # n
    /\ result.errors >= 2
    /\ result.errors < Max(m, n)

\* C2: with an empty input, errors is the length of the other sequence and
\* every position of the other sequence is marked; both empty gives 0 and two
\* empty mark vectors.
C2_EmptyInput ==
    pc = "done" =>
        /\ m = 0 => /\ result.errors = n
                    /\ result.originalMark = <<>>
                    /\ result.typedMark = [k \in 1..n |-> TRUE]
        /\ n = 0 => /\ result.errors = m
                    /\ result.typedMark = <<>>
                    /\ result.originalMark = [k \in 1..m |-> TRUE]

C2_Witness ==
    pc = "done" /\ m = 0 /\ n >= 2 /\ result.errors = n

\* C3: a sequence aligned with itself gives errors 0 and two all-false mark
\* vectors of its length.
C3_Identical ==
    (pc = "done" /\ originalWords = typedWords) =>
        /\ result.errors = 0
        /\ result.originalMark = [k \in 1..m |-> FALSE]
        /\ result.typedMark = [k \in 1..m |-> FALSE]

C3_Witness ==
    /\ pc = "done"
    /\ originalWords = typedWords
    /\ m >= 2
    /\ \A k \in 1..m : originalWords[k] = originalWords[1]

\* C4: the errors of (reference, typed) equals the errors of (typed, reference).
C4_Symmetric ==
    pc = "done" =>
        result.errors = wordEditDistance(typedWords, originalWords).errors

C4_Witness ==
    pc = "done" /\ m # n /\ m > 0 /\ n > 0 /\ result.errors > 0

\* C5: the mark vectors have the inputs' lengths and, with R and T the numbers
\* of marked reference and typed positions and S the number of substitution
\* steps, errors = R + T - S and max(R, T) <= errors <= R + T; scenario 2 of
\* the spec gives 2 errors and the marks it lists.
C5_MarksConsistent ==
    pc = "done" =>
        LET R == CountTrue(result.originalMark)
            T == CountTrue(result.typedMark)
        IN  /\ DOMAIN result.originalMark = 1..m
            /\ DOMAIN result.typedMark = 1..n
            /\ result.errors = R + T - subs
            /\ Max(R, T) <= result.errors
            /\ result.errors <= R + T
            /\ (originalWords = ScenarioOriginal /\ typedWords = ScenarioTyped) =>
                  /\ result.errors = 2
                  /\ result.originalMark = <<FALSE, TRUE, FALSE, TRUE>>
                  /\ result.typedMark = <<FALSE, TRUE, FALSE>>

C5_Witness ==
    /\ pc = "done"
    /\ originalWords = ScenarioOriginal /\ typedWords = ScenarioTyped
    /\ subs = 1
    /\ result.errors = 2

\* C6: the traceback terminates: every iteration of the main loop strictly
\* decreases i + j, i and j stay within 0..m and 0..n, the loops run at most
\* m + n iterations, the walk ends at (0, 0) and a result is returned.
C6_InRange ==
    /\ i \in 0..m /\ j \in 0..n
    /\ steps <= m + n
    /\ pc \in {"return", "done"} => i = 0 /\ j = 0
    /\ pc = "done" => result # NoResult

C6_Terminates ==
    /\ []C6_InRange
    /\ [][pc = "trace" => (i' + j' < i + j /\ i' >= 0 /\ j' >= 0)]_vars

C6_Witness ==
    /\ pc = "done"
    /\ m = MaxLen /\ n = MaxLen
    /\ \A k \in 1..m : originalWords[k] = "a" /\ typedWords[k] = "a"
    /\ steps = MaxLen

\* C9: the fallback branch of the traceback is never taken.
C9_NoFallback ==
    /\ branch # "fallback"
    /\ (pc = "trace" /\ originalWords[i] # typedWords[j]) =>
          \/ dp[i][j] = dp[i - 1][j - 1] + 1
          \/ dp[i][j] = dp[i - 1][j] + 1
          \/ dp[i][j] = dp[i][j - 1] + 1

C9_Witness ==
    branch = "insertion" /\ pc = "trace" /\ originalWords[i] # typedWords[j]

\* C10: the unmarked reference tokens, in order, are the same sequence as the
\* unmarked typed tokens, in order.
Unmarked(words, mark) ==
    LET keep(k) == ~mark[k]
        RECURSIVE from(_)
        from(k) == IF k > Len(words) THEN <<>>
                   ELSE IF keep(k) THEN <<words[k]>> \o from(k + 1)
                   ELSE from(k + 1)
    IN  from(1)

C10_UnmarkedMatch ==
    pc = "done" =>
        Unmarked(originalWords, result.originalMark)
            = Unmarked(typedWords, result.typedMark)

C10_Witness ==
    /\ pc = "done"
    /\ CountTrue(result.originalMark) >= 1
    /\ CountTrue(result.typedMark) >= 1
    /\ Len(Unmarked(originalWords, result.originalMark)) >= 2
    /\ m # n

IsFinite(x) == x.kind = "finite"

\* C7: when the typed text has no words, or no passage or time is stored, no
\* NaN or Infinity is written into a history record or into the displayed
\* result.
C7_ScoresGuarded ==
    /\ \A k \in DOMAIN history :
          (Words(history[k].typed) = <<>> \/ history[k].passage = <<>>) =>
              /\ IsFinite(history[k].grossWPM)
              /\ IsFinite(history[k].netWPM)
              /\ IsFinite(history[k].accuracy)
    /\ (/\ resultBox # <<>>
        /\ \/ typedText = <<>> \/ Words(typedText[1]) = <<>>
           \/ currentPassage = <<>> \/ timeTaken = <<>>) =>
              /\ IsFinite(resultBox[1].grossWPM)
              /\ IsFinite(resultBox[1].netWPM)
              /\ IsFinite(resultBox[1].accuracy)
              /\ IsFinite(resultBox[1].timeUsed)

\* C8: the history is append-only with one record per completed test: a step
\* leaves the records there are as they are, adds at most one, and adds one
\* only when the page was reached by the submission of an exam.
C8_OneRecordPerTest ==
    [][/\ \/ history' = history
          \/ /\ Len(history') = Len(history) + 1
             /\ SubSeq(history', 1, Len(history)) = history
       /\ history' # history => arrivedBy = "submitExam"]_vars

====
